---- MODULE Spec2Model ----
(***************************************************************************)
(* Model of docs/notebooks/elmer_01_electrostatic.py: the notebook that    *)
(* builds an enclosed interdigital capacitor, hands it with a layer stack  *)
(* and material permittivities to the Elmer electrostatic solver and plots *)
(* the resulting field.                                                    *)
(*                                                                         *)
(* Lengths are kept in half units (every coordinate is twice the value the *)
(* script computes), so that cpw_a / 2 and (cpw_a + cpw_b) / 2 stay        *)
(* integers.  z values of the layer stack are kept in thousandths.        *)
(***************************************************************************)
EXTENDS Integers, Sequences, FiniteSets, TLC

VARIABLES
    pc,               \* the statement of the script (or of the function) to run next
    args,             \* arguments of interdigital_capacitor_enclosed
    layer_stack,      \* module-level layer_stack
    material_spec,    \* module-level material_spec
    cap,              \* function local: the centred capacitor reference
    fc,               \* function local: the component c under construction
    todo,             \* function local: ports the for loop has still to visit
    routes,           \* function local: the routes built so far
    gap,              \* function local: the gap component
    ground,           \* function local: the ground component
    enclosed,         \* the component the function returned
    top,              \* module-level c, "capacitance_elmer"
    delimiter,        \* module-level name bound by the walrus expression
    call,             \* the arguments of run_capacitive_simulation_elmer evaluated so far
    results,          \* module-level results
    vis,              \* what the visualisation cell did
    solver_calls,     \* number of invocations of the external solver
    stages            \* the pipeline stages entered so far, in order

vars == <<pc, args, layer_stack, material_spec, cap, fc, todo, routes, gap, ground,
          enclosed, top, delimiter, call, results, vis, solver_calls, stages>>

(***************************************************************************)
(* Bounds of the model and constants of the program.                       *)
(***************************************************************************)
MaxCpwA == 2
MaxCpwB == 2
MaxGapToGround == 1
MaxFingers == 2

CpwADefault == 10
CpwBDefault == 6
GapToGroundDefault == 5
FingersDefault == 4
FingerLengthDefault == 20
FingerGapDefault == 2
ThicknessDefault == 5
RouteLength == 30
BoxHalf == 200
ZScale == 1000

None == "None"
Unbound == "<unbound>"

\* LAYER.WG, LAYER.DEEPTRENCH and LAYER.WAFER of the generic PDK
WG == "WG"
DEEPTRENCH == "DEEPTRENCH"
WAFER == "WAFER"

(***************************************************************************)
(* Geometry: a shape is a rectangle A on a layer minus the shapes of B     *)
(* (the result of boolean(A, B, "A-B")); a plain polygon has B = {}.       *)
(***************************************************************************)
Rect(x1, y1, x2, y2) == <<x1, y1, x2, y2>>

Poly(layer, ref, r) == [layer |-> layer, ref |-> ref, A |-> r, B |-> {}]

MoveRect(r, dx, dy) == <<r[1] + dx, r[2] + dy, r[3] + dx, r[4] + dy>>

\* gf.components.bbox(bbox=[[x1, y1], [x2, y2]]): the rectangle itself
bbox(x1, y1, x2, y2) == Rect(2 * x1, 2 * y1, 2 * x2, 2 * y2)

\* gf.geometry.boolean(A, B, operation="A-B", layer): A minus all polygons of B
boolean(A, B, layer, ref) == [layer |-> layer, ref |-> ref, A |-> A, B |-> B]

\* Component.offset(distance): the rectangle grown by distance on every side
offset(r, distance) ==
    <<r[1] - 2 * distance, r[2] - 2 * distance, r[3] + 2 * distance, r[4] + 2 * distance>>

RECURSIVE InShape(_, _)
\* whether the open grid cell with centre p (in quarter units) lies in shape s
InShape(s, p) ==
    /\ 2 * s.A[1] < p[1] /\ p[1] < 2 * s.A[3]
    /\ 2 * s.A[2] < p[2] /\ p[2] < 2 * s.A[4]
    /\ \A t \in s.B : ~InShape(t, p)

RECURSIVE XEdges(_)
XEdges(S) == UNION {{s.A[1], s.A[3]} \cup XEdges(s.B) : s \in S}

RECURSIVE YEdges(_)
YEdges(S) == UNION {{s.A[2], s.A[4]} \cup YEdges(s.B) : s \in S}

\* centres (in quarter units) of the cells of the grid spanned by the edges E
Mids(E) == {a + b : <<a, b>> \in {q \in E \X E : q[1] < q[2] /\ ~\E e \in E : q[1] < e /\ e < q[2]}}

CellCentres(S) == Mids(XEdges(S)) \X Mids(YEdges(S))

(***************************************************************************)
(* Ports.                                                                  *)
(***************************************************************************)
Port(name, x, y, orientation, width) ==
    [name |-> name, x |-> x, y |-> y, orientation |-> orientation, width |-> width]

\* Port.move(vector), the vector in script units
PortMove(p, dx, dy) == [p EXCEPT !.x = @ + 2 * dx, !.y = @ + 2 * dy]

\* Port.flip()
PortFlip(p) == [p EXCEPT !.orientation = (@ + 180) % 360]

\* Port.move_copy(vector), the vector already in half units
PortMoveCopy2(p, dx2, dy2) == [p EXCEPT !.x = @ + dx2, !.y = @ + dy2]

Digits == <<"1", "2", "3", "4", "5", "6", "7", "8", "9">>

\* place of a port in the clockwise numbering: west, north, east, south
ClockwiseKey(p) ==
    CASE p.orientation = 180 -> <<0, p.y>>
      [] p.orientation = 90 -> <<1, p.x>>
      [] p.orientation = 0 -> <<2, -p.y>>
      [] OTHER -> <<3, -p.x>>

KeyLess(k, l) == k[1] < l[1] \/ (k[1] = l[1] /\ k[2] < l[2])

\* Component.auto_rename_ports(): optical ports are numbered o1, o2, ... clockwise
auto_rename_ports(ports) ==
    {[p EXCEPT !.name = "o" \o Digits[1 + Cardinality({q \in ports :
                                        KeyLess(ClockwiseKey(q), ClockwiseKey(p))})]]
        : p \in ports}

PortNames(ports) == {p.name : p \in ports}

(***************************************************************************)
(* The capacitor of gdsfactory, as lines 128-130 use it.                   *)
(***************************************************************************)
CapWidth(finger_length, finger_gap, thickness) == 2 * thickness + finger_length + finger_gap

CapHeight(fingers, finger_gap, thickness) == fingers * thickness + (fingers - 1) * finger_gap

\* interdigital_capacitor(fingers, finger_length, finger_gap, thickness, layer).ref_center()
interdigital_capacitor(fingers, finger_length, finger_gap, thickness, layer) ==
    LET W == CapWidth(finger_length, finger_gap, thickness)
        H == CapHeight(fingers, finger_gap, thickness)
        row(i) == 2 * i * (thickness + finger_gap)
        finger(i) ==
            IF i % 2 = 0
            THEN Rect(2 * thickness, row(i), 2 * (thickness + finger_length),
                      row(i) + 2 * thickness)
            ELSE Rect(2 * (W - thickness - finger_length), row(i), 2 * (W - thickness),
                      row(i) + 2 * thickness)
        body == {Rect(0, 0, 2 * thickness, 2 * H), Rect(2 * (W - thickness), 0, 2 * W, 2 * H)}
        teeth == IF finger_length = 0 THEN {} ELSE {finger(i) : i \in 0 .. fingers - 1}
    IN  [polys |-> {Poly(layer, <<"cap", 0>>, MoveRect(r, -W, -H)) : r \in body \cup teeth},
         ports |-> <<Port("o1", -W, 0, 180, thickness), Port("o2", W, 0, 0, thickness)>>]

\* ComponentReference.get_polygon_enclosure(): the hull of the capacitor, its bounding box
get_polygon_enclosure(polys) ==
    LET xs == XEdges(polys)
        ys == YEdges(polys)
        lo(S) == CHOOSE v \in S : \A w \in S : v <= w
        hi(S) == CHOOSE v \in S : \A w \in S : v >= w
    IN  Rect(lo(xs), lo(ys), hi(xs), hi(ys))

(***************************************************************************)
(* The coplanar waveguide.  A section's offset is kept doubled (offset2).  *)
(***************************************************************************)
Section(width, offset2, layer) == [width |-> width, offset2 |-> offset2, layer |-> layer]

\* faulty variant of GapOffset2: offset=cpw_a + cpw_b / 2
GapOffset2Precedence(cpw_a, cpw_b) == 2 * cpw_a + cpw_b

\* lines 141-142: offset=(cpw_a + cpw_b) / 2 and offset=-(cpw_a + cpw_b) / 2
GapOffset2(cpw_a, cpw_b) == cpw_a + cpw_b

\* lines 140-149: the cross-section x
CpwCrossSection(cpw_a, cpw_b, metal_layer, gap_layer) ==
    [width |-> cpw_a, offset2 |-> 0, layer |-> metal_layer,
     port_names |-> <<"in", "out">>,
     sections |-> <<Section(cpw_b, GapOffset2(cpw_a, cpw_b), gap_layer),
                    Section(cpw_b, -GapOffset2(cpw_a, cpw_b), gap_layer)>>]

\* the lower and upper edge of a section, in half units from the centre line
SectionEdges(s) == <<s.offset2 - s.width, s.offset2 + s.width>>

Min(a, b) == IF a < b THEN a ELSE b
Max(a, b) == IF a < b THEN b ELSE a

\* faulty variant of Direction: the two signs exchanged
DirectionInverted(port) == IF port.orientation > 0 THEN 1 ELSE -1

\* line 136
Direction(port) == IF port.orientation > 0 THEN -1 ELSE 1

\* lines 135-138
Port2(port) == PortFlip(PortMove(port, RouteLength * Direction(port), 0))

\* gf.routing.get_route(port, port2, cross_section=x): the straight waveguide between them
get_route(port, port2, x, ref) ==
    LET strip(s) == Poly(s.layer, ref,
                         Rect(Min(port.x, port2.x), port.y + SectionEdges(s)[1],
                              Max(port.x, port2.x), port.y + SectionEdges(s)[2]))
    IN  [references |-> {strip(x)} \cup {strip(x.sections[i]) : i \in DOMAIN x.sections},
         ports |-> <<[port EXCEPT !.name = x.port_names[1]],
                     [PortFlip(port2) EXCEPT !.name = x.port_names[2]]>>]

\* faulty variant of Termination: the movex of lines 160-161 left out
TerminationNoShift(cpw_a, cpw_b, direction, end, gap_layer, ref) ==
    LET box == bbox(0, 0, cpw_b, cpw_a + 2 * cpw_b)
        dest == PortMoveCopy2(end, 0, -1 * (cpw_a + 2 * cpw_b))
    IN  Poly(gap_layer, ref, MoveRect(box, dest.x, dest.y))

\* lines 157-164: the termination box at the route's end port
Termination(cpw_a, cpw_b, direction, end, gap_layer, ref) ==
    LET box == bbox(0, 0, cpw_b, cpw_a + 2 * cpw_b)
        moved == IF direction < 0 THEN MoveRect(box, -2 * cpw_b, 0) ELSE box
        dest == PortMoveCopy2(end, 0, -1 * (cpw_a + 2 * cpw_b))
    IN  Poly(gap_layer, ref, MoveRect(moved, dest.x, dest.y))

(***************************************************************************)
(* Module-level data of the notebook.                                      *)
(***************************************************************************)
\* faulty variant of LayerStackLiteral: bw starts at zmin=0, inside the substrate
LayerStackBwAtZero ==
    [substrate |-> [layer |-> WAFER, thickness |-> 500 * ZScale, zmin |-> 0,
                    material |-> "Si", mesh_order |-> 99],
     bw |-> [layer |-> WG, thickness |-> 200, zmin |-> 0,
             material |-> "Nb", mesh_order |-> 2]]

\* lines 66-83; thickness and zmin in thousandths (200e-3 is 200)
LayerStackLiteral ==
    [substrate |-> [layer |-> WAFER, thickness |-> 500 * ZScale, zmin |-> 0,
                    material |-> "Si", mesh_order |-> 99],
     bw |-> [layer |-> WG, thickness |-> 200, zmin |-> 500 * ZScale,
             material |-> "Nb", mesh_order |-> 2]]

\* lines 84-88
MaterialSpecLiteral ==
    [Si |-> [relative_permittivity |-> "11.45"],
     Nb |-> [relative_permittivity |-> "inf"],
     vacuum |-> [relative_permittivity |-> "1"]]

\* line 184
simulation_box == <<-BoxHalf, -BoxHalf, BoxHalf, BoxHalf>>

\* line 203
BackgroundTag == "vacuum"

\* line 207
DelimiterLiteral == "__"

\* faulty variant of PortKey: a delimiter of its own in place of the name delimiter
PortKeyUnderscore(d, port) == "bw" \o "_" \o port

\* lines 219 and 226: the key f"bw{delimiter}{port}" of one port
PortKey(d, port) == "bw" \o d \o port

\* lines 208-228: the resolutions mapping
Resolutions(d, portnames) ==
    [k \in {PortKey(d, n) : n \in portnames} |->
        [resolution |-> 20, DistMax |-> 30, DistMin |-> 10, SizeMax |-> 14, SizeMin |-> 3]]
    @@ ("bw" :> [resolution |-> 15])
    @@ ("substrate" :> [resolution |-> 40])
    @@ ("vacuum" :> [resolution |-> 40])

\* what the external solver may report as field_file_location
FieldLocations == {None, "", "tmp/capacitance_elmer/results/case_t0001.vtu",
                   "tmp/capacitance_elmer/results/case_t0001.pvtu"}

\* truth value of a field_file_location in the if statement of line 234
Truthy(v) == v # None /\ v # ""

EmptyComponent == [polys |-> {}, ports |-> {}]

Unset == <<>>

NoVis == [reads |-> 0, read_path |-> None, slices |-> 0, slice_z |-> 0, plotters |-> 0,
          meshes |-> 0, shows |-> 0]

(***************************************************************************)
(* The statements of the script in the order of the file.                  *)
(***************************************************************************)
Script ==
    <<"define_metadata", "call_enclosed", "for_port", "ground", "return", "add_ports",
      "substrate", "flatten", "eval_args", "eval_mesh_head", "eval_delimiter",
      "eval_resolutions", "invoke", "solver_running", "print", "vis_test", "read",
      "slice", "plotter", "show", "done">>

\* faulty variant of NextPc: the solver cell is run again after its result is printed
NextPcRerun(p) ==
    IF p = "print" THEN "eval_args"
    ELSE Script[1 + CHOOSE i \in 1 .. Len(Script) - 1 : Script[i] = p]

\* the statement that follows statement p
NextPc(p) == Script[1 + CHOOSE i \in 1 .. Len(Script) - 1 : Script[i] = p]

\* the stages with the new stage entered
Enter(stage) ==
    IF Len(stages) > 0 /\ stages[Len(stages)] = stage THEN stages ELSE Append(stages, stage)

\* Component.add_port(port): the name out of the route is never one of o1, o2, ...
add_port(ports, port) == ports \cup {port}

\* faulty variant of add_ports: the ports are not taken over
add_ports_dropped(ports, new) == ports

\* Component.add_ports(ports)
add_ports(ports, new) == ports \cup new

\* faulty variant of GroundOperand: B=gap, the component left out
GroundOperandGapOnly(c_polys, gap_polys) == gap_polys

\* line 175: B=[c, gap]
GroundOperand(c_polys, gap_polys) == c_polys \cup gap_polys

CpwASet == {CpwADefault} \cup (1 .. MaxCpwA)
CpwBSet == {CpwBDefault} \cup (1 .. MaxCpwB)
GapToGroundSet == {GapToGroundDefault} \cup (1 .. MaxGapToGround)
FingersSet == {FingersDefault} \cup (1 .. MaxFingers)
FingerLengthSet == {0, FingerLengthDefault}

(***************************************************************************)
(* The notebook is run once, for arguments of interdigital_capacitor_      *)
(* enclosed drawn from a bounded set that holds the defaults of lines      *)
(* 100-108, which are the ones the call of line 186 uses.                  *)
(***************************************************************************)
Init ==
    /\ pc = "define_metadata"
    /\ args \in [cpw_a : CpwASet, cpw_b : CpwBSet, gap_to_ground : GapToGroundSet,
                 fingers : FingersSet, finger_length : FingerLengthSet,
                 finger_gap : {FingerGapDefault}, thickness : {ThicknessDefault},
                 metal_layer : {WG}, gap_layer : {DEEPTRENCH},
                 enclosure_box : {simulation_box}]
    /\ layer_stack = Unset
    /\ material_spec = Unset
    /\ cap = [polys |-> {}, ports |-> <<>>]
    /\ fc = EmptyComponent
    /\ todo = <<>>
    /\ routes = <<>>
    /\ gap = {}
    /\ ground = {}
    /\ enclosed = EmptyComponent
    /\ top = EmptyComponent
    /\ delimiter = Unbound
    /\ call = Unset
    /\ results = [returned |-> FALSE, field_file_location |-> None]
    /\ vis = NoVis
    /\ solver_calls = 0
    /\ stages = <<>>

\* lines 66-88
DefineMetadata ==
    /\ pc = "define_metadata"
    /\ layer_stack' = LayerStackLiteral
    /\ material_spec' = MaterialSpecLiteral
    /\ pc' = NextPc(pc)
    /\ UNCHANGED <<args, cap, fc, todo, routes, gap, ground, enclosed, top, delimiter,
                   call, results, vis, solver_calls, stages>>

\* lines 184-186 up to the call, then lines 127-133 of the function
CallEnclosed ==
    /\ pc = "call_enclosed"
    /\ cap' = interdigital_capacitor(args.fingers, args.finger_length, args.finger_gap,
                                     args.thickness, args.metal_layer)
    /\ fc' = [polys |-> cap'.polys, ports |-> {}]
    /\ todo' = cap'.ports
    /\ routes' = <<>>
    /\ gap' = {}
    /\ top' = EmptyComponent
    /\ stages' = Enter("build_geometry")
    /\ pc' = NextPc(pc)
    /\ UNCHANGED <<args, layer_stack, material_spec, ground, enclosed, delimiter, call,
                   results, vis, solver_calls>>

\* lines 134-167: one pass of the for loop
RoutePort ==
    /\ pc = "for_port"
    /\ todo # <<>>
    /\ LET port == Head(todo)
           direction == Direction(port)
           x == CpwCrossSection(args.cpw_a, args.cpw_b, args.metal_layer, args.gap_layer)
           n == Len(routes) + 1
           route == get_route(port, Port2(port), x, <<"route", n>>)
           end == route.ports[Len(route.ports)]
           term == Termination(args.cpw_a, args.cpw_b, direction, end, args.gap_layer,
                               <<"term", n>>)
       IN  /\ fc' = [polys |-> fc.polys \cup route.references \cup {term},
                     ports |-> auto_rename_ports(add_port(fc.ports, end))]
           /\ routes' = Append(routes, [port |-> port, direction |-> direction, x |-> x,
                                        route |-> route, term |-> term])
    /\ todo' = Tail(todo)
    /\ UNCHANGED <<pc, args, layer_stack, material_spec, cap, gap, ground, enclosed, top,
                   delimiter, call, results, vis, solver_calls, stages>>

\* lines 169-171, once the loop is over
ComputeGap ==
    /\ pc = "for_port"
    /\ todo = <<>>
    /\ gap' = {boolean(offset(get_polygon_enclosure(cap.polys), args.gap_to_ground),
                       fc.polys, args.gap_layer, <<"gap", 0>>)}
    /\ pc' = NextPc(pc)
    /\ UNCHANGED <<args, layer_stack, material_spec, cap, fc, todo, routes, ground,
                   enclosed, top, delimiter, call, results, vis, solver_calls, stages>>

\* lines 173-178
ComputeGround ==
    /\ pc = "ground"
    /\ ground' = {boolean(bbox(args.enclosure_box[1], args.enclosure_box[2],
                               args.enclosure_box[3], args.enclosure_box[4]),
                          GroundOperand(fc.polys, gap), args.metal_layer, <<"ground", 0>>)}
    /\ fc' = [fc EXCEPT !.polys = @ \cup ground']
    /\ pc' = NextPc(pc)
    /\ UNCHANGED <<args, layer_stack, material_spec, cap, todo, routes, gap, enclosed,
                   top, delimiter, call, results, vis, solver_calls, stages>>

\* line 180, and line 186: cap = c << interdigital_capacitor_enclosed(...)
ReturnFlatten ==
    /\ pc = "return"
    /\ enclosed' = [polys |-> fc.polys, ports |-> fc.ports]
    /\ top' = [top EXCEPT !.polys = @ \cup enclosed'.polys]
    /\ pc' = NextPc(pc)
    /\ UNCHANGED <<args, layer_stack, material_spec, cap, fc, todo, routes, gap, ground,
                   delimiter, call, results, vis, solver_calls, stages>>

\* line 189
AddPorts ==
    /\ pc = "add_ports"
    /\ top' = [top EXCEPT !.ports = add_ports(@, enclosed.ports)]
    /\ pc' = NextPc(pc)
    /\ UNCHANGED <<args, layer_stack, material_spec, cap, fc, todo, routes, gap, ground,
                   enclosed, delimiter, call, results, vis, solver_calls, stages>>

\* lines 190-191
AddSubstrate ==
    /\ pc = "substrate"
    /\ top' = [top EXCEPT !.polys = @ \cup
                 {Poly(WAFER, <<"substrate", 0>>,
                       bbox(simulation_box[1], simulation_box[2], simulation_box[3],
                            simulation_box[4]))}]
    /\ pc' = NextPc(pc)
    /\ UNCHANGED <<args, layer_stack, material_spec, cap, fc, todo, routes, gap, ground,
                   enclosed, delimiter, call, results, vis, solver_calls, stages>>

\* line 192: the flattened copy is dropped, c stays as it is
Flatten ==
    /\ pc = "flatten"
    /\ pc' = NextPc(pc)
    /\ UNCHANGED <<args, layer_stack, material_spec, cap, fc, todo, routes, gap, ground,
                   enclosed, top, delimiter, call, results, vis, solver_calls, stages>>

\* lines 195-201: the arguments up to mesh_parameters; the layer stack and the
\* material permittivities are attached to the component here
EvalArgs ==
    /\ pc = "eval_args"
    /\ call' = [component |-> top, layer_stack |-> layer_stack,
                material_spec |-> material_spec, n_processes |-> 4, element_order |-> 1,
                simulation_folder |-> "tmp", mesh_parameters |-> Unset]
    /\ stages' = Enter("attach_metadata")
    /\ pc' = NextPc(pc)
    /\ UNCHANGED <<args, layer_stack, material_spec, cap, fc, todo, routes, gap, ground,
                   enclosed, top, delimiter, results, vis, solver_calls>>

\* lines 203-206
EvalMeshHead ==
    /\ pc = "eval_mesh_head"
    /\ call' = [call EXCEPT !.mesh_parameters =
                  [background_tag |-> BackgroundTag,
                   background_padding |-> <<0, 0, 0, 0, 0, 700>>,
                   portnames |-> top.ports,
                   default_characteristic_length |-> 200]]
    /\ pc' = NextPc(pc)
    /\ UNCHANGED <<args, layer_stack, material_spec, cap, fc, todo, routes, gap, ground,
                   enclosed, top, delimiter, results, vis, solver_calls, stages>>

\* line 207: layer_portname_delimiter=(delimiter := "__")
EvalDelimiter ==
    /\ pc = "eval_delimiter"
    /\ delimiter' = DelimiterLiteral
    /\ call' = [call EXCEPT !.mesh_parameters =
                  @ @@ [layer_portname_delimiter |-> delimiter']]
    /\ pc' = NextPc(pc)
    /\ UNCHANGED <<args, layer_stack, material_spec, cap, fc, todo, routes, gap, ground,
                   enclosed, top, results, vis, solver_calls, stages>>

\* lines 208-228: reads the name delimiter, which must be bound by now
EvalResolutions ==
    /\ pc = "eval_resolutions"
    /\ delimiter # Unbound
    /\ call' = [call EXCEPT !.mesh_parameters =
                  @ @@ [resolutions |-> Resolutions(delimiter, PortNames(top.ports))]]
    /\ pc' = NextPc(pc)
    /\ UNCHANGED <<args, layer_stack, material_spec, cap, fc, todo, routes, gap, ground,
                   enclosed, top, delimiter, results, vis, solver_calls, stages>>

\* line 195: run_capacitive_simulation_elmer is entered
Invoke ==
    /\ pc = "invoke"
    /\ solver_calls' = solver_calls + 1
    /\ stages' = Enter("call_solver")
    /\ pc' = NextPc(pc)
    /\ UNCHANGED <<args, layer_stack, material_spec, cap, fc, todo, routes, gap, ground,
                   enclosed, top, delimiter, call, results, vis>>

\* line 195: the solver returns and results is bound
SolverReturn ==
    /\ pc = "solver_running"
    /\ \E loc \in FieldLocations :
          results' = [returned |-> TRUE, field_file_location |-> loc]
    /\ pc' = NextPc(pc)
    /\ UNCHANGED <<args, layer_stack, material_spec, cap, fc, todo, routes, gap, ground,
                   enclosed, top, delimiter, call, vis, solver_calls, stages>>

\* line 231
PrintResults ==
    /\ pc = "print"
    /\ pc' = NextPc(pc)
    /\ UNCHANGED <<args, layer_stack, material_spec, cap, fc, todo, routes, gap, ground,
                   enclosed, top, delimiter, call, results, vis, solver_calls, stages>>

\* faulty variant of EntersVisualisation: "is not None" in place of the truth value
EntersVisualisationIsNotNone(r) == r.field_file_location # None

\* line 234: whether the visualisation is entered
EntersVisualisation(r) == Truthy(r.field_file_location)

\* line 234
VisTest ==
    /\ pc = "vis_test"
    /\ pc' = IF EntersVisualisation(results) THEN NextPc(pc) ELSE "done"
    /\ UNCHANGED <<args, layer_stack, material_spec, cap, fc, todo, routes, gap, ground,
                   enclosed, top, delimiter, call, results, vis, solver_calls, stages>>

\* line 235
ReadField ==
    /\ pc = "read"
    /\ vis' = [vis EXCEPT !.reads = @ + 1, !.read_path = results.field_file_location]
    /\ stages' = Enter("load_and_plot")
    /\ pc' = NextPc(pc)
    /\ UNCHANGED <<args, layer_stack, material_spec, cap, fc, todo, routes, gap, ground,
                   enclosed, top, delimiter, call, results, solver_calls>>

\* line 236: z in thousandths, before the factor 1e-6
SliceField ==
    /\ pc = "slice"
    /\ vis' = [vis EXCEPT !.slices = @ + 1, !.slice_z = layer_stack["bw"].zmin]
    /\ pc' = NextPc(pc)
    /\ UNCHANGED <<args, layer_stack, material_spec, cap, fc, todo, routes, gap, ground,
                   enclosed, top, delimiter, call, results, solver_calls, stages>>

\* lines 238-242
MakePlotter ==
    /\ pc = "plotter"
    /\ vis' = [vis EXCEPT !.plotters = @ + 1, !.meshes = @ + 1]
    /\ pc' = NextPc(pc)
    /\ UNCHANGED <<args, layer_stack, material_spec, cap, fc, todo, routes, gap, ground,
                   enclosed, top, delimiter, call, results, solver_calls, stages>>

\* line 243
Show ==
    /\ pc = "show"
    /\ vis' = [vis EXCEPT !.shows = @ + 1]
    /\ pc' = NextPc(pc)
    /\ UNCHANGED <<args, layer_stack, material_spec, cap, fc, todo, routes, gap, ground,
                   enclosed, top, delimiter, call, results, solver_calls, stages>>

Next ==
    \/ DefineMetadata
    \/ CallEnclosed
    \/ RoutePort
    \/ ComputeGap
    \/ ComputeGround
    \/ ReturnFlatten
    \/ AddPorts
    \/ AddSubstrate
    \/ Flatten
    \/ EvalArgs
    \/ EvalMeshHead
    \/ EvalDelimiter
    \/ EvalResolutions
    \/ Invoke
    \/ SolverReturn
    \/ PrintResults
    \/ VisTest
    \/ ReadField
    \/ SliceField
    \/ MakePlotter
    \/ Show

Spec == Init /\ [][Next]_vars

(***************************************************************************)
(* C1.                                                                     *)
(***************************************************************************)
PipelineOrder == <<"build_geometry", "attach_metadata", "call_solver", "load_and_plot">>

InStages(stage) == \E i \in DOMAIN stages : stages[i] = stage

\* the geometry handed to the solver is finished: every capacitor port has its
\* route, the ground is cut, the ports are on the top-level component, the substrate is added
GeometryComplete ==
    /\ todo = <<>>
    /\ Len(routes) = Len(cap.ports)
    /\ Len(routes) > 0
    /\ ground # {}
    /\ enclosed.polys = fc.polys
    /\ ground \subseteq top.polys
    /\ top.ports = enclosed.ports
    /\ \E s \in top.polys : s.layer = WAFER

\* C1: the stages entered are always an initial part of build geometry, attach
\* metadata, call solver, load and plot (so they occur in that order, each at most
\* once, none re-entered); the solver is invoked at most once and exactly once in a
\* finished run, only with the geometry complete and the metadata attached; nothing
\* is read or plotted before the solver has returned.
C1_LinearPipeline ==
    /\ \E n \in 0 .. Len(PipelineOrder) : stages = SubSeq(PipelineOrder, 1, n)
    /\ InStages("build_geometry") <=> pc \notin {"define_metadata", "call_enclosed"}
    /\ InStages("attach_metadata") <=> DOMAIN call # {}
    /\ InStages("call_solver") <=> solver_calls > 0
    /\ InStages("load_and_plot") <=> vis # NoVis
    /\ solver_calls <= 1
    /\ DOMAIN call # {} =>
          /\ GeometryComplete
          /\ call.component = top
          /\ call.layer_stack = layer_stack /\ DOMAIN layer_stack # {}
          /\ call.material_spec = material_spec /\ DOMAIN material_spec # {}
    /\ solver_calls > 0 => GeometryComplete /\ "resolutions" \in DOMAIN call.mesh_parameters
    /\ pc = "done" => solver_calls = 1 /\ results.returned
    /\ vis # NoVis => results.returned /\ solver_calls = 1
    /\ results.returned => solver_calls = 1

C1_Witness ==
    /\ pc = "done"
    /\ stages = PipelineOrder
    /\ solver_calls = 1
    /\ vis.reads = 1 /\ vis.shows = 1

(***************************************************************************)
(* C2.                                                                     *)
(***************************************************************************)
\* where the port added for capacitor port p has to be: 30 units (60 half units)
\* along x, towards negative x when the orientation of p is > 0
ExpectedEnd(p) == <<IF p.orientation > 0 THEN p.x - 2 * 30 ELSE p.x + 2 * 30, p.y>>

PortsAt(ports, xy) == {q \in ports : <<q.x, q.y>> = xy}

\* C2: the component under construction has one port per capacitor port visited,
\* at the far end of that port's route, 30 units along x at the same y; the
\* component returned has as many ports as the capacitor, one on each side.
C2_PortsOnBothEnds ==
    /\ Cardinality(fc.ports) = Len(routes)
    /\ \A i \in 1 .. Len(routes) :
          LET p == cap.ports[i]
              r == routes[i].route
          IN  /\ routes[i].port = p
              /\ Cardinality(PortsAt(fc.ports, ExpectedEnd(p))) = 1
              /\ <<r.ports[1].x, r.ports[1].y>> = <<p.x, p.y>>
              /\ <<r.ports[Len(r.ports)].x, r.ports[Len(r.ports)].y>> = ExpectedEnd(p)
    /\ pc \notin {"define_metadata", "call_enclosed", "for_port", "ground", "return"} =>
          /\ enclosed.ports = fc.ports
          /\ Cardinality(enclosed.ports) = Len(cap.ports)
          /\ \E q \in enclosed.ports : q.x < 0
          /\ \E q \in enclosed.ports : q.x > 0

C2_Witness ==
    /\ pc = "add_ports"
    /\ Cardinality(enclosed.ports) = 2
    /\ Len(routes) = 2

(***************************************************************************)
(* C3.                                                                     *)
(***************************************************************************)
InRectCell(r, p) ==
    /\ 2 * r[1] < p[1] /\ p[1] < 2 * r[3]
    /\ 2 * r[2] < p[2] /\ p[2] < 2 * r[4]

\* the capacitor's bounding box grown by gap_to_ground, written out
GrownEnclosure ==
    LET W == 2 * args.thickness + args.finger_length + args.finger_gap
        H == args.fingers * args.thickness + (args.fingers - 1) * args.finger_gap
        g == 2 * args.gap_to_ground
    IN  <<-W - g, -H - g, W + g, H + g>>

\* C3: once the ground exists, every route and termination had been added before
\* it was cut; a cell is ground metal exactly when it is in the enclosure box, in
\* no shape the component held (capacitor, routes with gap sections,
\* terminations) and not in the gap region; the gap region is the grown
\* enclosure minus the component; so the ground shares no cell with the capacitor,
\* the traces, any gap-layer shape or the gap region, and stays gap_to_ground
\* away from the capacitor's enclosure.
C3_GroundNeverTouches ==
    ground # {} =>
        LET own == fc.polys \ ground
            cells == CellCentres(fc.polys \cup gap)
            box == <<2 * args.enclosure_box[1], 2 * args.enclosure_box[2],
                     2 * args.enclosure_box[3], 2 * args.enclosure_box[4]>>
        IN  /\ todo = <<>> /\ Len(routes) = Len(cap.ports)
            /\ cap.polys \subseteq own
            /\ \A i \in 1 .. Len(routes) :
                  routes[i].route.references \cup {routes[i].term} \subseteq own
            /\ Cardinality(ground) = 1 /\ Cardinality(gap) = 1
            /\ \A gr \in ground : gr.layer = args.metal_layer
            /\ \A p \in cells :
                  /\ (\E gr \in ground : InShape(gr, p))
                        <=> /\ InRectCell(box, p)
                            /\ \A s \in own \cup gap : ~InShape(s, p)
                  /\ (\E gs \in gap : InShape(gs, p))
                        <=> /\ InRectCell(GrownEnclosure, p)
                            /\ \A s \in own : ~InShape(s, p)
                  /\ (\E gr \in ground : InShape(gr, p))
                        => /\ \A s \in own \cup gap : ~InShape(s, p)
                           /\ ~InRectCell(GrownEnclosure, p)

C3_Witness ==
    /\ pc = "return"
    /\ ground # {}
    /\ Len(routes) = 2
    /\ \E p \in CellCentres(fc.polys \cup gap) :
          /\ \E gr \in ground : InShape(gr, p)
          /\ p[1] > 0 /\ p[2] > 0
    /\ \E p \in CellCentres(fc.polys \cup gap) : \E gs \in gap : InShape(gs, p)

(***************************************************************************)
(* C4.                                                                     *)
(***************************************************************************)
\* C4: once line 189 has run, the top-level component holds exactly the ports of
\* the enclosed capacitor; once portnames is evaluated, and so when the solver is
\* invoked, the terminals are exactly that port collection, on the component
\* that is simulated.
C4_TerminalsArePorts ==
    /\ pc \notin {"define_metadata", "call_enclosed", "for_port", "ground", "return",
                  "add_ports"} =>
          /\ top.ports = enclosed.ports
          /\ PortNames(top.ports) = PortNames(enclosed.ports)
          /\ Cardinality(top.ports) = Len(cap.ports)
    /\ (DOMAIN call # {} /\ "portnames" \in DOMAIN call.mesh_parameters) =>
          /\ call.mesh_parameters.portnames = call.component.ports
          /\ \A q \in enclosed.ports : q \in call.mesh_parameters.portnames
          /\ \A t \in call.mesh_parameters.portnames : t \in enclosed.ports
    /\ solver_calls > 0 => "portnames" \in DOMAIN call.mesh_parameters

C4_Witness ==
    /\ pc = "solver_running"
    /\ solver_calls = 1
    /\ Cardinality(call.mesh_parameters.portnames) = 2
    /\ call.mesh_parameters.portnames = enclosed.ports

(***************************************************************************)
(* C5.                                                                     *)
(***************************************************************************)
\* the y extents (half units, relative to the port) of the strips a route drew on a layer
StripExtents(r, layer) ==
    {<<s.A[2] - r.port.y, s.A[4] - r.port.y>> : s \in {t \in r.route.references : t.layer = layer}}

\* C5: in every route built, the trace has width cpw_a at offset 0 on the metal
\* layer, the two gap sections have width cpw_b at offsets +(cpw_a+cpw_b)/2 and
\* -(cpw_a+cpw_b)/2 on the gap layer and mirror each other, the inner edge of each
\* is the trace edge at cpw_a/2 from the centre line, and the whole is
\* cpw_a + 2*cpw_b wide; the strips drawn have these extents.
C5_CrossSection ==
    \A i \in 1 .. Len(routes) :
        LET a == args.cpw_a
            b == args.cpw_b
            x == routes[i].x
            s1 == x.sections[1]
            s2 == x.sections[2]
        IN  /\ Len(x.sections) = 2
            /\ x.width = a /\ x.offset2 = 0 /\ x.layer = args.metal_layer
            /\ s1.width = b /\ s1.offset2 = a + b /\ s1.layer = args.gap_layer
            /\ s2.width = b /\ s2.offset2 = -(a + b) /\ s2.layer = args.gap_layer
            /\ SectionEdges(s2) = <<-SectionEdges(s1)[2], -SectionEdges(s1)[1]>>
            /\ SectionEdges(s1)[1] = a /\ SectionEdges(s1)[1] = SectionEdges(x)[2]
            /\ SectionEdges(s2)[2] = -a /\ SectionEdges(s2)[2] = SectionEdges(x)[1]
            /\ SectionEdges(s1)[2] - SectionEdges(s2)[1] = 2 * (a + 2 * b)
            /\ StripExtents(routes[i], args.metal_layer) = {<<-a, a>>}
            /\ StripExtents(routes[i], args.gap_layer)
                  = {<<a, a + 2 * b>>, <<-(a + 2 * b), -a>>}

C5_Witness ==
    /\ Len(routes) = 2
    /\ args.cpw_a = CpwADefault /\ args.cpw_b = CpwBDefault
    /\ StripExtents(routes[2], args.gap_layer) = {<<10, 22>>, <<-22, -10>>}

(***************************************************************************)
(* C6.                                                                     *)
(***************************************************************************)
StackLayers(ls) == {ls[n].layer : n \in DOMAIN ls}

\* C6: in what the solver is given, every layer of the stack has a layer, a
\* material, a thickness and a zmin; every material of the stack and the
\* background tag has a relative_permittivity; the layers the geometry is drawn
\* on, the gap layer apart, are WAFER and WG and both are layers of the stack;
\* bw starts where the substrate ends, at 500.
C6_MetadataConsistent ==
    solver_calls > 0 =>
        LET ls == call.layer_stack
            ms == call.material_spec
        IN  /\ DOMAIN ls = {"substrate", "bw"}
            /\ \A n \in DOMAIN ls :
                  /\ {"layer", "material", "thickness", "zmin"} \subseteq DOMAIN ls[n]
                  /\ ls[n].material \in DOMAIN ms
                  /\ "relative_permittivity" \in DOMAIN ms[ls[n].material]
            /\ {ls[n].material : n \in DOMAIN ls} = {"Si", "Nb"}
            /\ call.mesh_parameters.background_tag = "vacuum"
            /\ call.mesh_parameters.background_tag \in DOMAIN ms
            /\ "relative_permittivity" \in DOMAIN ms[call.mesh_parameters.background_tag]
            /\ {s.layer : s \in call.component.polys} \ {args.gap_layer} = {WAFER, WG}
            /\ {WAFER, WG} \subseteq StackLayers(ls)
            /\ ls["substrate"].layer = WAFER /\ ls["bw"].layer = WG
            /\ ls["bw"].zmin = ls["substrate"].zmin + ls["substrate"].thickness
            /\ ls["bw"].zmin = 500 * ZScale

C6_Witness ==
    /\ pc = "solver_running"
    /\ solver_calls = 1
    /\ call.layer_stack["bw"].zmin = 500000
    /\ \E s \in call.component.polys : s.layer = WAFER

(***************************************************************************)
(* C7.                                                                     *)
(***************************************************************************)
\* C7: nothing is read, plotted or shown unless field_file_location is neither
\* None nor empty; a run that ends with it None or empty has read nothing and
\* made no plotter; a run that ends with it set has read the file at that
\* location once and shown the plot once; and after the test of line 234 the
\* script is in the visualisation exactly when the location is set.
C7_PlotIffFieldFile ==
    LET loc == results.field_file_location
        set == loc # None /\ loc # ""
    IN  /\ vis # NoVis => results.returned /\ set /\ vis.reads = 1 /\ vis.read_path = loc
        /\ vis.reads <= 1 /\ vis.plotters <= 1 /\ vis.shows <= 1
        /\ pc \in {"read", "slice", "plotter", "show"} => set
        /\ (pc = "done" /\ ~set) => vis = NoVis
        /\ (pc = "done" /\ set) =>
              /\ vis.reads = 1 /\ vis.read_path = loc
              /\ vis.plotters = 1 /\ vis.shows = 1

C7_Witness ==
    /\ pc = "done"
    /\ results.returned
    /\ results.field_file_location = ""
    /\ vis = NoVis

(***************************************************************************)
(* C8.                                                                     *)
(***************************************************************************)
\* C8: resolutions is evaluated only with delimiter bound, to the value passed as
\* layer_portname_delimiter, "__"; its keys are bw, substrate, vacuum and, for
\* every port of the component and nothing else, bw + delimiter + port name.
C8_ResolutionKeys ==
    (DOMAIN call # {} /\ "resolutions" \in DOMAIN call.mesh_parameters) =>
        LET mp == call.mesh_parameters
            names == PortNames(call.component.ports)
        IN  /\ "layer_portname_delimiter" \in DOMAIN mp
            /\ mp.layer_portname_delimiter = "__"
            /\ delimiter = mp.layer_portname_delimiter
            /\ DOMAIN mp.resolutions
                  = {"bw", "substrate", "vacuum"}
                    \cup {"bw" \o mp.layer_portname_delimiter \o n : n \in names}
            /\ Cardinality(DOMAIN mp.resolutions) = 3 + Cardinality(call.component.ports)
            /\ names = PortNames(mp.portnames)

C8_Witness ==
    /\ pc = "invoke"
    /\ Cardinality(DOMAIN call.mesh_parameters.resolutions) = 5
    /\ delimiter = "__"

(***************************************************************************)
(* C9.                                                                     *)
(***************************************************************************)
\* C9: the termination of every route is a gap-layer box of width cpw_b and
\* height cpw_a + 2*cpw_b, centred in y on the route's end port (px, py), from
\* py - (cpw_a/2 + cpw_b) to py + (cpw_a/2 + cpw_b); in x it lies beyond the
\* port, from px - cpw_b to px when the route runs towards negative x and from
\* px to px + cpw_b otherwise.
C9_Termination ==
    \A i \in 1 .. Len(routes) :
        LET a == args.cpw_a
            b == args.cpw_b
            r == routes[i]
            t == r.term.A
            start == r.route.ports[1]
            end == r.route.ports[Len(r.route.ports)]
            negative == end.x < start.x
        IN  /\ r.term.layer = args.gap_layer
            /\ t[3] - t[1] = 2 * b
            /\ t[4] - t[2] = 2 * (a + 2 * b)
            /\ t[2] = end.y - (a + 2 * b)
            /\ t[4] = end.y + (a + 2 * b)
            /\ negative <=> r.direction < 0
            /\ negative => t[1] = end.x - 2 * b /\ t[3] = end.x
            /\ ~negative => t[1] = end.x /\ t[3] = end.x + 2 * b
            /\ r.term \in fc.polys

C9_Witness ==
    /\ Len(routes) = 2
    /\ routes[1].direction < 0
    /\ routes[2].direction > 0
    /\ routes[1].term.A[3] = routes[1].route.ports[2].x
    /\ routes[2].term.A[1] = routes[2].route.ports[2].x

====
